---- MODULE Spec2Model ----
(***************************************************************************)
(* universal-task-sync: the `sync` command (cli.py), the reconcile command *)
(* (reconciler.py) and the mapping store (db.py), over two task systems.   *)
(* Spec is the behaviour of the commands; SpecStore applies the methods of  *)
(* MappingManager directly, in any order, to the same store; SpecModels    *)
(* applies the methods of TaskCIR (models.py, serialization.py) to tasks   *)
(* with fields of every kind; SpecRoute is `sync` over several routes;     *)
(* SpecConc is two processes on one store; SpecMerge is the loop of        *)
(* resolve_conflict_via_git; SpecReconcile is one run of reconcile.        *)
(*                                                                         *)
(* The two systems are seen through the adapter interface of base.py.      *)
(* System A is the source of `sync` (its to_cif copies the tool's own id   *)
(* into uuid, as uts_tw does), system B the destination (its to_cif sets   *)
(* uuid=None, as uts_github does).  The attribute the driver reads as      *)
(* task.ext_id and the reconciler reads as task.tool_uid is the task's     *)
(* external identifier.  An uncaught Python exception ends the command: no *)
(* handler in cli.py catches anything, and every store call has committed  *)
(* its own sqlite connection by then.                                      *)
(*                                                                         *)
(* The mergeable content of a task is cut down to two fields, description  *)
(* and status; md5 is taken to be injective on the serialized text.        *)
(***************************************************************************)
EXTENDS Integers, Sequences, FiniteSets, TLC

\* ------------------------------------------------------------------ bounds
MaxUuid == 3        \* internal identities that can be minted in one run
MaxOps == 5         \* user edits and command invocations in one run
MaxCalls == 4       \* direct calls of MappingManager methods in one run
MaxTags == 2        \* length of a tag list
MaxRuns == 3        \* runs of the merge tool in one resolve_conflict_via_git

\* --------------------------------------------------------------- constants
A == "tw"
B == "github"
Systems == {A, B}
NULL == "NULL"                      \* Python None / SQL NULL
None == [none |-> TRUE]             \* Python None where an object is expected
Unbound == [unbound |-> TRUE]       \* a local variable not yet assigned
Raise == [raise |-> TRUE]           \* an adapter call that raised
NoTask == [absent |-> "NoTask"]     \* external id never used on the system
Gone == [absent |-> "Gone"]         \* task deleted on the system
ExtOrder(s) == IF s = A THEN <<"a1", "a2">> ELSE <<"b1", "b2">>
ExtIds(s) == {ExtOrder(s)[i] : i \in 1..Len(ExtOrder(s))}
UuidNames == <<"u1", "u2", "u3", "u4", "u5", "u6">>
Uuid(n) == UuidNames[n]
Descriptions == {"Draft", "Draft v2"}
Statuses == {"pending", "completed"}
a_filter == "project:uts"           \* the --a_filter of every invocation
Targets == {"owner/repo"}           \* values of --b_filter
Content == [description : Descriptions \cup {""}, status : Statuses]

\* ------------------------------------------------------------------- state
VARIABLES
    remote,         \* remote[s][e]: content of task e on system s, NoTask or Gone
    id_map,         \* table id_map: rows (service_name, external_id) -> internal_uuid, status
    sync_state,     \* table sync_state: rows internal_uuid -> content_hash, raw_json
    nextUuid,       \* number of the next uuid4() value
    pc,             \* "idle" or "loop" (inside the for loop of sync)
    raw_tasks,      \* the part of a.fetch_raw's result the loop has not reached
    merged_task,    \* local variable merged_task of sync: Unbound or a dict
    outcome,        \* how the last command ended
    calls,          \* adapter writes issued by the current pass
    cls,            \* branch taken for each identity in the current pass
    done,           \* identities whose processing finished with every push accepted
    settled,        \* identities finished by the previous pass, untouched since
    lastMerge,      \* arguments and result of the last resolve_conflict_via_git
    lastCommit,     \* task handed to the last update_sync_state of the pass
    passStart,      \* store and fetch result at the start of the current pass
    ops,            \* user edits and commands so far
    lastCall,       \* the last direct call of a method or function
    procs,          \* two processes on one map.db: where each is, what it read and got
    fetch_calls,    \* the fetch_one calls of the current pass, in order
    project_map,    \* table project_map: rows (src_plugin, src_project, dst_plugin) -> dst_target
    mergetool,      \* the while loop of resolve_conflict_via_git: position, TASK.json, result
    reconcile       \* the for loop of the reconcile command: lists, linked_dst_ids, links made

vars == <<remote, id_map, sync_state, nextUuid, pc, raw_tasks, merged_task,
          outcome, calls, cls, done, settled, lastMerge, lastCommit, passStart,
          ops, lastCall, project_map, procs, fetch_calls, mergetool,
          reconcile>>

\* ----------------------------------------------------------- models.py
\* TaskCIR, reduced to uuid, the external id, and the mergeable fields.
TaskCIR(uuid, ext_id, description, status) ==
    [uuid |-> uuid, ext_id |-> ext_id, description |-> description, status |-> status]

\* to_dict(only_mergeable=True): the fields with metadata merge=True.
to_dict_mergeable(task) ==
    [description |-> task.description, status |-> task.status]

\* to_json(only_mergeable=True): json.dumps(sort_keys=True) of the mergeable
\* dict, the enum written by value: key/value pairs in key order.
to_json(task) ==
    << <<"description", to_dict_mergeable(task).description>>,
       <<"status", to_dict_mergeable(task).status>> >>

\* json.loads of such a text.
json_loads(text) == [description |-> text[1][2], status |-> text[2][2]]

\* get_content_hash: md5 of to_json(only_mergeable=True).
get_content_hash(task) == to_json(task)

\* from_dict: fields absent from the dict take the dataclass defaults.
from_dict(data) == TaskCIR("", "", data.description, data.status)

\* update_from: overwrite the mergeable fields present in the dict.
update_from(task, merged_data) ==
    [task EXCEPT !.description = merged_data.description,
                 !.status = merged_data.status]

\* ----------------------------------------------------------------- db.py
IdMapRow(uuid, service, ext, status) ==
    [internal_uuid |-> uuid, service_name |-> service, external_id |-> ext,
     status |-> status]

\* get_internal_uuid: the row of primary key (service, external_id), if any.
get_internal_uuid(idm, service, external_id) ==
    LET rows == {r \in idm : r.service_name = service /\ r.external_id = external_id}
    IN  IF rows = {} THEN NULL ELSE (CHOOSE r \in rows : TRUE).internal_uuid

\* A lookup that forgets the service_name condition of the query.
get_external_id_any_service(idm, service, internal_uuid) ==
    LET rows == {r \in idm : r.internal_uuid = internal_uuid}
    IN  IF rows = {} THEN {NULL} ELSE {r.external_id : r \in rows}

\* get_external_id: fetchone() over the rows of (service, internal_uuid); the
\* query has no ORDER BY, so any matching row can be the one returned.
get_external_id(idm, service, internal_uuid) ==
    LET rows == {r \in idm : r.service_name = service /\ r.internal_uuid = internal_uuid}
    IN  IF rows = {} THEN {NULL} ELSE {r.external_id : r \in rows}

\* A create_mapping with a plain INSERT on a table without its primary key.
create_mapping_no_replace(idm, service, external_id, new_uuid) ==
    {idm \cup {IdMapRow(new_uuid, service, external_id, "active")}}

\* create_mapping: INSERT OR REPLACE on primary key (service_name, external_id);
\* status is COALESCE(status of a row with this uuid and service, 'active').
\* new_uuid is existing_uuid or the freshly minted one.  The result is the set
\* of tables the statement can leave (the scalar subquery takes any one row).
create_mapping(idm, service, external_id, new_uuid) ==
    LET same == {r \in idm : r.internal_uuid = new_uuid /\ r.service_name = service}
        sts  == IF same = {} THEN {"active"} ELSE {r.status : r \in same}
        kept == {r \in idm : ~(r.service_name = service /\ r.external_id = external_id)}
    IN  {kept \cup {IdMapRow(new_uuid, service, external_id, st)} : st \in sts}

\* An ensure that never looks the key up: the row is written with a new
\* identity whatever the table holds.
ensure_mapping_always_mints(idm, service_name, external_id, new_uid) ==
    [uid |-> new_uid,
     idm |-> {r \in idm : ~(r.service_name = service_name /\ r.external_id = external_id)}
                \cup {IdMapRow(new_uid, service_name, external_id, "active")}]

\* An ensure without the UPDATE of lines 92-95.
ensure_mapping_no_reactivate(idm, service_name, external_id, new_uid) ==
    LET rows == {r \in idm : r.service_name = service_name /\ r.external_id = external_id}
    IN  IF rows # {}
        THEN [uid |-> (CHOOSE r \in rows : TRUE).internal_uuid, idm |-> idm]
        ELSE [uid |-> new_uid,
              idm |-> idm \cup {IdMapRow(new_uid, service_name, external_id, "active")}]

\* ensure_mapping: the identity of the row of key (service_name, external_id),
\* whose status is set to 'active'; without such a row a plain INSERT of a
\* new identity (new_uid is the uuid4 value).
ensure_mapping(idm, service_name, external_id, new_uid) ==
    LET rows == {r \in idm : r.service_name = service_name /\ r.external_id = external_id}
    IN  IF rows # {}
        THEN [uid |-> (CHOOSE r \in rows : TRUE).internal_uuid,
              idm |-> {IF r \in rows THEN [r EXCEPT !.status = "active"] ELSE r : r \in idm}]
        ELSE [uid |-> new_uid,
              idm |-> idm \cup {IdMapRow(new_uid, service_name, external_id, "active")}]

\* A set_status that retires an identity by deleting its rows.
set_status_deletes(idm, internal_id, status) ==
    IF status = "completed" THEN {r \in idm : r.internal_uuid # internal_id}
    ELSE {IF r.internal_uuid = internal_id THEN [r EXCEPT !.status = status] ELSE r : r \in idm}

\* set_status: UPDATE id_map SET status WHERE internal_uuid.
set_status(idm, internal_id, status) ==
    {IF r.internal_uuid = internal_id THEN [r EXCEPT !.status = status] ELSE r : r \in idm}

\* delete_mapping: DELETE from id_map and from sync_state WHERE internal_uuid.
delete_mapping(idm, ss, internal_id) ==
    [idm |-> {r \in idm : r.internal_uuid # internal_id},
     ss |-> {r \in ss : r.internal_uuid # internal_id}]

SyncStateRow(task) ==
    [internal_uuid |-> task.uuid, content_hash |-> get_content_hash(task),
     raw_json |-> to_json(task)]

\* update_sync_state: INSERT OR REPLACE keyed by task.uuid.  A NULL key never
\* conflicts with an existing row (sqlite keeps NULLs of a TEXT PRIMARY KEY
\* distinct), so the row is added; equal rows are kept once here.
update_sync_state(ss, task) ==
    IF task.uuid = NULL
    THEN ss \cup {SyncStateRow(task)}
    ELSE {r \in ss : r.internal_uuid # task.uuid} \cup {SyncStateRow(task)}

\* get_sync_state: {"hash", "data"} of the row keyed by internal_uuid, or None.
get_sync_state(ss, internal_uuid) ==
    LET rows == {r \in ss : r.internal_uuid = internal_uuid /\ internal_uuid # NULL}
    IN  IF rows = {} THEN None
        ELSE LET r == CHOOSE x \in rows : TRUE
             IN  [hash |-> r.content_hash, data |-> json_loads(r.raw_json)]

ProjectRow(src_p, src_proj, dst_p, dst_t) ==
    [src_plugin |-> src_p, src_project |-> src_proj, dst_plugin |-> dst_p,
     dst_target |-> dst_t]

\* A store_project_link with INSERT OR IGNORE: the first target stays.
store_project_link_keeps_first(pm, src_p, src_proj, dst_p, dst_t) ==
    IF \E r \in pm : r.src_plugin = src_p /\ r.src_project = src_proj /\ r.dst_plugin = dst_p
    THEN pm
    ELSE pm \cup {ProjectRow(src_p, src_proj, dst_p, dst_t)}

\* store_project_link: INSERT OR REPLACE on (src_plugin, src_project, dst_plugin).
store_project_link(pm, src_p, src_proj, dst_p, dst_t) ==
    {r \in pm : ~(r.src_plugin = src_p /\ r.src_project = src_proj /\ r.dst_plugin = dst_p)}
        \cup {ProjectRow(src_p, src_proj, dst_p, dst_t)}

\* get_stored_target: dst_target of the row of that key, or None.
get_stored_target(pm, src_p, src_proj, dst_p) ==
    LET rows == {r \in pm : r.src_plugin = src_p /\ r.src_project = src_proj
                              /\ r.dst_plugin = dst_p}
    IN  IF rows = {} THEN NULL ELSE (CHOOSE r \in rows : TRUE).dst_target

\* ------------------------------------------------------------- adapters
RawItem(ext, c) == [ext_id |-> ext, description |-> c.description, status |-> c.status]

\* What an adapter hands back for an id it does not hold, when it does not
\* raise: an item without fields.
EmptyRaw == [ext_id |-> NULL, description |-> "", status |-> "pending"]

Present(rem, s, e) == e \in ExtIds(s) /\ rem[s][e] \in Content

\* fetch_raw: the items the system holds, in the system's order.
fetch_raw(rem, s) ==
    LET ids == SelectSeq(ExtOrder(s), LAMBDA e : rem[s][e] \in Content)
    IN  [i \in 1..Len(ids) |-> RawItem(ids[i], rem[s][ids[i]])]

\* fetch_one: the item; for an id the system does not hold the adapter either
\* raises (uts_github: raise_for_status) or returns an empty item.
fetch_one(rem, s, ext) ==
    IF Present(rem, s, ext) THEN {RawItem(ext, rem[s][ext])}
    ELSE {Raise, EmptyRaw}

\* to_cif: uts_tw copies the tool's uuid into uuid, uts_github sets uuid=None.
to_cif(s, raw) ==
    TaskCIR(IF s = A THEN raw.ext_id ELSE NULL, raw.ext_id, raw.description, raw.status)

\* Ids the system has never used: where a create puts the new task.
FreeIds(rem, s) == {e \in ExtIds(s) : rem[s][e] = NoTask}

\* The adapter's write of a task's content under an id it holds.
Put(rem, s, ext, task) == [rem EXCEPT ![s][ext] = to_dict_mergeable(task)]

Call(op, s, ext, uid) == [op |-> op, sys |-> s, ext |-> ext, uid |-> uid]

Range(seq) == {seq[i] : i \in 1..Len(seq)}

\* send_raw without an ext_id: a create.  The new id, or None when the system
\* refuses (uts_github returns None on an API or connection error).
send_raw(rem, s) == FreeIds(rem, s) \cup {NULL}

\* update_task: the systems the call can leave.  With tool_uid None uts_tw
\* falls into add_task; an id the system does not hold changes nothing; a held
\* id takes the task's content unless the system refuses.
update_task(rem, s, ext, task) ==
    IF ext = NULL THEN {Put(rem, s, e, task) : e \in FreeIds(rem, s)} \cup {rem}
    ELSE IF Present(rem, s, ext) THEN {Put(rem, s, ext, task), rem}
    ELSE {rem}

\* The write the driver issues when it calls update_task with this id.
UpdateCall(s, ext, uid) == Call(IF ext = NULL THEN "create" ELSE "update", s, ext, uid)

\* ------------------------------------------------- cli.py: the merge step
Abort == [abort |-> TRUE]           \* typer.Abort raised

\* One line of TASK.json under a three-way merge: equal sides agree, a side
\* equal to the base gives way to the other, anything else is a conflict the
\* operator settles for one of the two sides.  Stage 1 is "{}" when there is
\* no base, so no line of it equals a side's line.
MergeField(base_task, f, x, y) ==
    IF x = y THEN {x}
    ELSE IF base_task # None /\ to_dict_mergeable(base_task)[f] = x THEN {y}
    ELSE IF base_task # None /\ to_dict_mergeable(base_task)[f] = y THEN {x}
    ELSE {x, y}

\* A merge step that is never run: TASK.json still holds p1's text.
resolve_conflict_keeps_ours(base_task, p1_task, p2_task) ==
    {[uuid |-> "", ext_id |-> "", description |-> p1_task.description,
      status |-> p1_task.status], Abort}

\* resolve_conflict_via_git: stages base, p1 and p2, runs the merge tool and
\* returns to_dict(from_json(result)); an unparseable result the operator
\* declines to fix raises typer.Abort.
resolve_conflict_via_git(base_task, p1_task, p2_task) ==
    {[uuid |-> "", ext_id |-> "", description |-> d, status |-> s] :
        d \in MergeField(base_task, "description", p1_task.description, p2_task.description),
        s \in MergeField(base_task, "status", p1_task.status, p2_task.status)}
    \cup {Abort}

\* ----------------------------------------------- cli.py: sync, per item
raw == Head(raw_tasks)
internal_uid == get_internal_uuid(id_map, A, to_cif(A, raw).ext_id)
a_task == [to_cif(A, raw) EXCEPT !.uuid = internal_uid]
last_sync == get_sync_state(sync_state, internal_uid)
src_changed ==
    IF last_sync = None THEN TRUE ELSE get_content_hash(a_task) # last_sync["hash"]
dst_changed(current_dst_task) ==
    IF last_sync = None THEN TRUE
    ELSE get_content_hash(current_dst_task) # last_sync["hash"]

\* Whether the task of identity uid on system s differs from the baseline
\* snapshot (bookkeeping for the properties; the driver does not compute it).
SideDiffers(s, uid) ==
    /\ get_sync_state(sync_state, uid) # None
    /\ \E e \in get_external_id(id_map, s, uid) :
         /\ Present(remote, s, e)
         /\ get_content_hash(remote[s][e]) # get_sync_state(sync_state, uid)["hash"]

SidePresent(s, uid) ==
    \E e \in get_external_id(id_map, s, uid) : Present(remote, s, e)

Classified(uid, class) ==
    [uid |-> uid, class |-> class,
     base |-> get_sync_state(sync_state, uid) # None,
     aDiff |-> SideDiffers(A, uid), bDiff |-> SideDiffers(B, uid),
     aPresent |-> SidePresent(A, uid), bPresent |-> SidePresent(B, uid)]

NoCall == [op |-> "none"]
NoMerge == [valid |-> FALSE]
NoCommit == [valid |-> FALSE]
MergeOff == [pc |-> "off"]          \* resolve_conflict_via_git is not running
ReconcileOff == [pc |-> "off"]      \* the reconcile command is not running

\* Two processes that use the same map.db.
Procs == {"p1", "p2"}
ProcStart ==
    [pc |-> "start", op |-> NULL, service |-> NULL, ext |-> NULL, found |-> NULL,
     uid |-> NULL]

\* ------------------------------------------------------------------- Init
\* An empty store; one task on each system, equal in content.
Init ==
    /\ remote = [s \in Systems |-> [e \in ExtIds(s) |->
                    IF e \in {"a1", "b1"}
                    THEN [description |-> "Draft", status |-> "pending"]
                    ELSE NoTask]]
    /\ id_map = {}
    /\ sync_state = {}
    /\ nextUuid = 1
    /\ pc = "idle"
    /\ raw_tasks = <<>>
    /\ merged_task = Unbound
    /\ outcome = "none"
    /\ calls = {}
    /\ cls = {}
    /\ done = {}
    /\ settled = {}
    /\ lastMerge = NoMerge
    /\ lastCommit = NoCommit
    /\ passStart = [id_map |-> {}, sync_state |-> {}, fetched |-> {}]
    /\ ops = 0
    /\ project_map = {}
    /\ lastCall = NoCall
    /\ procs = [p \in Procs |-> ProcStart]
    /\ fetch_calls = <<>>
    /\ mergetool = MergeOff
    /\ reconcile = ReconcileOff

\* The bookkeeping of a pass is dropped as soon as something else acts.
ClearPass ==
    /\ merged_task' = Unbound
    /\ outcome' = "none"
    /\ calls' = {}
    /\ cls' = {}
    /\ done' = {}
    /\ settled' = {}
    /\ lastMerge' = NoMerge
    /\ lastCommit' = NoCommit
    /\ passStart' = [id_map |-> {}, sync_state |-> {}, fetched |-> {}]
    /\ fetch_calls' = <<>>

\* ------------------------------------------------- users of the systems
\* Between two commands a user rewrites the description of a task, completes
\* it, adds a task on the source system, or deletes one.
UserEdit(s, e, c) ==
    /\ pc = "idle" /\ ops < MaxOps
    /\ Present(remote, s, e)
    /\ \/ c = [remote[s][e] EXCEPT !.description = "Draft v2"]
       \/ c = [remote[s][e] EXCEPT !.status = "completed"]
    /\ remote[s][e] # c
    /\ remote' = [remote EXCEPT ![s][e] = c]
    /\ ops' = ops + 1
    /\ ClearPass
    /\ UNCHANGED <<reconcile, mergetool, procs, lastCall, project_map, id_map, sync_state, nextUuid, pc, raw_tasks>>

UserAdd(s, e) ==
    /\ pc = "idle" /\ ops < MaxOps
    /\ s = A /\ remote[s][e] = NoTask
    /\ remote' = [remote EXCEPT ![s][e] = [description |-> "Draft", status |-> "pending"]]
    /\ ops' = ops + 1
    /\ ClearPass
    /\ UNCHANGED <<reconcile, mergetool, procs, lastCall, project_map, id_map, sync_state, nextUuid, pc, raw_tasks>>

UserDelete(s, e) ==
    /\ pc = "idle" /\ ops < MaxOps
    /\ Present(remote, s, e)
    /\ remote' = [remote EXCEPT ![s][e] = Gone]
    /\ ops' = ops + 1
    /\ ClearPass
    /\ UNCHANGED <<reconcile, mergetool, procs, lastCall, project_map, id_map, sync_state, nextUuid, pc, raw_tasks>>

\* ------------------------------------------------ reconciler.py
\* "draft" in "draft v2": the substring test of the manual-match candidates.
IsSubstring(x, y) == x = y \/ x = "" \/ (x = "Draft" /\ y = "Draft v2")

\* A link whose second create_mapping is called without shared_uuid, so
\* that it mints an identity of its own.
perform_link_unshared(p1, p2, t1, t2) ==
    LET shared_uuid == Uuid(nextUuid)
    IN  /\ \E m1 \in create_mapping(id_map, p1, t1.ext_id, shared_uuid) :
           \E m2 \in create_mapping(m1, p2, t2.ext_id, Uuid(nextUuid + 1)) :
              id_map' = m2
        /\ sync_state' = update_sync_state(sync_state, [t1 EXCEPT !.uuid = shared_uuid])
        /\ nextUuid' = nextUuid + 2

\* _perform_link: create_mapping(p1, t1.tool_uid) mints a new identity,
\* create_mapping(p2, t2.tool_uid, shared_uuid) binds the other side to it,
\* and t1 becomes the snapshot.
perform_link(p1, p2, t1, t2) ==
    LET shared_uuid == Uuid(nextUuid)
    IN  /\ \E m1 \in create_mapping(id_map, p1, t1.ext_id, shared_uuid) :
           \E m2 \in create_mapping(m1, p2, t2.ext_id, shared_uuid) :
              id_map' = m2
        /\ sync_state' = update_sync_state(sync_state, [t1 EXCEPT !.uuid = shared_uuid])
        /\ nextUuid' = nextUuid + 1

\* main: a source task is linked to a destination task of equal content hash,
\* or to a substring candidate the operator picks.
ReconcileLink(ea, eb) ==
    /\ pc = "idle" /\ nextUuid <= MaxUuid /\ ops < MaxOps
    /\ Present(remote, A, ea) /\ Present(remote, B, eb)
    /\ LET s_task == to_cif(A, RawItem(ea, remote[A][ea]))
           d == to_cif(B, RawItem(eb, remote[B][eb]))
           dst_tasks == fetch_raw(remote, B)
           matches == SelectSeq(dst_tasks, LAMBDA r :
                          get_content_hash(to_cif(B, r)) = get_content_hash(s_task))
       IN  /\ IF matches # <<>>
              THEN eb = Head(matches).ext_id
              ELSE \/ IsSubstring(s_task.description, d.description)
                   \/ IsSubstring(d.description, s_task.description)
           /\ perform_link(A, B, s_task, d)
    /\ ClearPass
    /\ ops' = ops + 1
    /\ UNCHANGED <<reconcile, mergetool, procs, lastCall, project_map, remote, pc, raw_tasks>>

\* ---------------------------------------------------------- cli.py: sync
\* The depends list of a raw item: uts_tw's to_cif copies raw["depends"]
\* (ids of other tw tasks), uts_github's sets none.  In every run task a2 of
\* tw depends on task a1.
raw_depends(s, raw_item) ==
    IF s = A /\ raw_item.ext_id = "a2" THEN <<"a1">> ELSE <<>>

FetchCall(s, ext) == [service |-> s, ext |-> ext]

\* A driver that resolves the depends list of each task it handles by
\* fetching every reference from the owning system, mapped or not.
references_fetched_eagerly(s, raw_item) ==
    [i \in 1..Len(raw_depends(s, raw_item)) |-> FetchCall(s, raw_depends(s, raw_item)[i])]

\* The fetch_one calls sync makes for the depends list of a task: none.
\* a.to_cif(raw) is used as it is (lines 61-62); the only fetch_one of the
\* loop is line 84, for the task's own destination id.
references_fetched(s, raw_item) == <<>>

\* The name b_plugin is a parameter of sync; it is bound neither in
\* _push_new_task nor at module level, so line 133 raises NameError.
b_plugin_bound == FALSE

\* A sweep that retires every source mapping the bulk fetch did not return.
after_loop_sweep(idm, fetched) ==
    {IF r.service_name = A /\ r.external_id \notin fetched
     THEN [r EXCEPT !.status = "completed"] ELSE r : r \in idm}

\* Nothing follows the for loop but the "Sync complete" message: mappings
\* whose task the bulk fetch did not return are left as they are.
after_loop(idm, fetched) == idm

\* Lines 32-42: the route table as the command leaves it.  An explicit
\* b_filter is stored; without one the stored target is used, and when there
\* is none the operator is prompted and the answer is stored.
target_from_history(pm, a_flt, b_filter, answers) ==
    IF b_filter = NULL
    THEN IF get_stored_target(pm, A, a_flt, B) # NULL
         THEN {[b_filter |-> get_stored_target(pm, A, a_flt, B), prompted |-> FALSE,
                pm |-> pm]}
         ELSE {[b_filter |-> t, prompted |-> TRUE,
                pm |-> store_project_link(pm, A, a_flt, B, t)] : t \in answers}
    ELSE {[b_filter |-> b_filter, prompted |-> FALSE,
           pm |-> store_project_link(pm, A, a_flt, B, b_filter)]}

resolve_target(pm, b_filter) ==
    {r.pm : r \in target_from_history(pm, a_filter, b_filter, Targets)}

\* Lines 44-54: a.authenticate, b.authenticate or validate_permissions
\* raises (uts_github: typer.Exit(1)); the route table has been written.
SyncDenied ==
    /\ pc = "idle" /\ ops < MaxOps
    /\ \E b_filter \in Targets \cup {NULL} :
          project_map' \in resolve_target(project_map, b_filter)
    /\ ops' = ops + 1
    /\ outcome' = "denied"
    /\ merged_task' = Unbound /\ calls' = {} /\ cls' = {} /\ done' = {}
    /\ settled' = {} /\ lastMerge' = NoMerge /\ lastCommit' = NoCommit
    /\ passStart' = [id_map |-> {}, sync_state |-> {}, fetched |-> {}]
    /\ fetch_calls' = <<>>
    /\ UNCHANGED <<reconcile, mergetool, procs, lastCall, remote, id_map, sync_state, nextUuid, pc, raw_tasks>>

\* a.fetch_raw(a_filter); a filter that matches nothing, or a source that is
\* not there (uts_json: the file does not exist), gives the empty list.
SyncStart ==
    /\ pc = "idle" /\ ops < MaxOps
    /\ \E b_filter \in Targets \cup {NULL} :
          project_map' \in resolve_target(project_map, b_filter)
    /\ \E reachable \in BOOLEAN :
         /\ raw_tasks' = IF reachable THEN fetch_raw(remote, A) ELSE <<>>
         /\ passStart' = [id_map |-> id_map, sync_state |-> sync_state,
                          fetched |-> IF reachable
                                      THEN {r.ext_id : r \in Range(fetch_raw(remote, A))}
                                      ELSE {}]
    /\ pc' = "loop"
    /\ merged_task' = Unbound
    /\ outcome' = "running"
    /\ calls' = {}
    /\ cls' = {}
    /\ settled' = done
    /\ done' = {}
    /\ lastMerge' = NoMerge
    /\ lastCommit' = NoCommit
    /\ fetch_calls' = <<>>
    /\ ops' = ops + 1
    /\ UNCHANGED <<reconcile, mergetool, procs, lastCall, remote, id_map, sync_state, nextUuid>>

\* _push_new_task: send_raw creates the task on the destination; with an id
\* returned, the destination mapping and the snapshot are to be stored.
push_new_task(task, idm) ==
    \E new_ext_id \in send_raw(remote, B) :
       /\ calls' = calls \cup {Call("create", B, new_ext_id, task.uuid)}
       /\ remote' = IF new_ext_id # NULL THEN Put(remote, B, new_ext_id, task) ELSE remote
       /\ IF new_ext_id = NULL
          THEN /\ id_map' = idm
               /\ UNCHANGED <<sync_state, pc, outcome, lastCommit>>
               /\ raw_tasks' = Tail(raw_tasks)
          ELSE IF b_plugin_bound
          THEN /\ \E m \in create_mapping(idm, B, new_ext_id, task.uuid) : id_map' = m
               /\ sync_state' = update_sync_state(sync_state, task)
               /\ lastCommit' = [valid |-> TRUE, uid |-> task.uuid, task |-> task]
               /\ raw_tasks' = Tail(raw_tasks)
               /\ UNCHANGED <<pc, outcome>>
          ELSE /\ id_map' = idm
               /\ pc' = "idle" /\ outcome' = "crashed"
               /\ raw_tasks' = <<>>
               /\ UNCHANGED <<sync_state, lastCommit>>

\* Lines 62-70: no mapping for the source id; mint one and push the task.
SyncNewTask ==
    /\ pc = "loop" /\ raw_tasks # <<>>
    /\ internal_uid = NULL
    /\ nextUuid <= MaxUuid
    /\ LET uid == Uuid(nextUuid)
       IN  /\ \E idm \in create_mapping(id_map, A, to_cif(A, raw).ext_id, uid) :
                push_new_task([to_cif(A, raw) EXCEPT !.uuid = uid], idm)
           /\ cls' = cls \cup {Classified(uid, "NEW")}
    /\ fetch_calls' = fetch_calls \o references_fetched(A, raw)
    /\ nextUuid' = nextUuid + 1
    /\ UNCHANGED <<reconcile, mergetool, procs, lastCall, project_map, merged_task, done, settled, lastMerge, passStart, ops>>

\* Lines 72-79: the source hash equals the snapshot's: nothing is done.
SyncClean ==
    /\ pc = "loop" /\ raw_tasks # <<>>
    /\ internal_uid # NULL
    /\ ~src_changed
    /\ cls' = cls \cup {Classified(internal_uid, "CLEAN")}
    /\ fetch_calls' = fetch_calls \o references_fetched(A, raw)
    /\ done' = done \cup {internal_uid}
    /\ raw_tasks' = Tail(raw_tasks)
    /\ UNCHANGED <<reconcile, mergetool, procs, lastCall, project_map, remote, id_map, sync_state, nextUuid, pc, merged_task, outcome,
                   calls, settled, lastMerge, lastCommit, passStart, ops>>

\* Line 84: b.fetch_one raises; nothing catches it.
SyncFetchOneFails ==
    /\ pc = "loop" /\ raw_tasks # <<>>
    /\ internal_uid # NULL
    /\ src_changed
    /\ \E dst_ext_id \in get_external_id(id_map, B, internal_uid) :
          /\ Raise \in fetch_one(remote, B, dst_ext_id)
          /\ fetch_calls' = Append(fetch_calls \o references_fetched(A, raw),
                                   FetchCall(B, dst_ext_id))
    /\ cls' = cls \cup {Classified(internal_uid, "FETCH_FAILED")}
    /\ pc' = "idle" /\ outcome' = "crashed"
    /\ raw_tasks' = <<>>
    /\ UNCHANGED <<reconcile, mergetool, procs, lastCall, project_map, remote, id_map, sync_state, nextUuid, merged_task, calls,
                   done, settled, lastMerge, lastCommit, passStart, ops>>

\* A driver that sends the merged copy to a side whatever the side holds.
push_always(task, tmp) == TRUE

\* Lines 98 and 104: the merged copy is sent to a side only when its
\* fingerprint is not the fingerprint of the task the side handed over.
push_needed(task, tmp) == get_content_hash(task) # get_content_hash(tmp)

\* Lines 80-108: source and destination both differ from the snapshot (or
\* there is none): merge, update each side the merge changes, store the
\* destination's copy as the snapshot.
SyncConflict ==
    /\ pc = "loop" /\ raw_tasks # <<>>
    /\ internal_uid # NULL
    /\ src_changed
    /\ \E dst_ext_id \in get_external_id(id_map, B, internal_uid),
          src_ext_id \in get_external_id(id_map, A, internal_uid) :
       \E raw_dst \in fetch_one(remote, B, dst_ext_id) \ {Raise} :
         LET current_dst_task == to_cif(B, raw_dst)
             base_task == IF last_sync # None THEN from_dict(last_sync.data) ELSE None
         IN  /\ dst_changed(current_dst_task)
             /\ \E merged \in resolve_conflict_via_git(base_task, a_task, current_dst_task) \ {Abort} :
                  LET tmp_a == update_from(a_task, merged)
                      tmp_b == update_from(current_dst_task, merged)
                      push_a == push_needed(a_task, tmp_a)
                      push_b == push_needed(current_dst_task, tmp_b)
                  IN  \E rem_a \in (IF push_a THEN update_task(remote, A, src_ext_id, tmp_a)
                                              ELSE {remote}) :
                      \E rem_b \in (IF push_b THEN update_task(rem_a, B, dst_ext_id, tmp_b)
                                              ELSE {rem_a}) :
                        /\ remote' = rem_b
                        /\ calls' = calls
                              \cup (IF push_a THEN {UpdateCall(A, src_ext_id, internal_uid)} ELSE {})
                              \cup (IF push_b THEN {UpdateCall(B, dst_ext_id, internal_uid)} ELSE {})
                        /\ sync_state' = update_sync_state(sync_state, tmp_b)
                        /\ lastCommit' = [valid |-> TRUE, uid |-> internal_uid, task |-> tmp_b]
                        /\ lastMerge' = [valid |-> TRUE, uid |-> internal_uid,
                                         stored |-> last_sync, base |-> base_task,
                                         p1 |-> a_task, p2 |-> current_dst_task,
                                         result |-> merged]
                        /\ merged_task' = merged
                        /\ fetch_calls' = Append(fetch_calls \o references_fetched(A, raw),
                                                 FetchCall(B, dst_ext_id))
                        /\ done' = IF /\ Present(remote, B, dst_ext_id)
                                      /\ push_a => rem_a # remote
                                      /\ push_b => rem_b # rem_a
                                   THEN done \cup {internal_uid} ELSE done
    /\ cls' = cls \cup {Classified(internal_uid, "CONFLICT")}
    /\ raw_tasks' = Tail(raw_tasks)
    /\ UNCHANGED <<reconcile, mergetool, procs, lastCall, project_map, id_map, nextUuid, pc, outcome, settled, passStart, ops>>

\* A resolver that stores p1 as the snapshot before it gives up.
abort_commits_ours(ss, p1_task) == update_sync_state(ss, p1_task)

\* The store as typer.Abort leaves it: resolve_conflict_via_git has written
\* to its temporary directory only, and lines 95-108 of sync are not reached.
abort_leaves(ss, p1_task) == ss

\* Lines 174-182: the merge result does not parse and the operator declines
\* to fix it: typer.Abort leaves sync.
SyncMergeAbort ==
    /\ pc = "loop" /\ raw_tasks # <<>>
    /\ internal_uid # NULL
    /\ src_changed
    /\ \E dst_ext_id \in get_external_id(id_map, B, internal_uid) :
       \E raw_dst \in fetch_one(remote, B, dst_ext_id) \ {Raise} :
         /\ dst_changed(to_cif(B, raw_dst))
         /\ Abort \in resolve_conflict_via_git(
                IF last_sync # None THEN from_dict(last_sync.data) ELSE None,
                a_task, to_cif(B, raw_dst))
         /\ fetch_calls' = Append(fetch_calls \o references_fetched(A, raw),
                                  FetchCall(B, dst_ext_id))
    /\ cls' = cls \cup {Classified(internal_uid, "CONFLICT")}
    /\ sync_state' = abort_leaves(sync_state, a_task)
    /\ pc' = "idle" /\ outcome' = "aborted"
    /\ raw_tasks' = <<>>
    /\ UNCHANGED <<reconcile, mergetool, procs, lastCall, project_map, remote, id_map, nextUuid, merged_task, calls,
                   done, settled, lastMerge, lastCommit, passStart, ops>>

\* A one-sided branch whose update_task call goes through with the merge
\* result that an earlier item of the pass left in merged_task.
one_sided_update_stale(rem, dst_ext_id, cur_dst_task, merged) ==
    IF merged = Unbound THEN {Raise}
    ELSE update_task(rem, B, dst_ext_id, update_from(cur_dst_task, merged))

\* Line 116: b.update_task(dst_ext_id, current_dst_task.update_from(merged_task)).
\* merged_task is unbound unless an earlier item of this pass went through
\* the merge (UnboundLocalError); otherwise update_from returns None and
\* update_task is called with that None and without its third argument
\* (TypeError).  Either way the call raises before the adapter is entered.
one_sided_update(rem, dst_ext_id, cur_dst_task, merged) == {Raise}

\* Lines 109-118: only the source differs.  Line 116 raises and the
\* exception leaves sync before anything is written; lines 117-118 would
\* store the source task as the snapshot.
SyncOneSided ==
    /\ pc = "loop" /\ raw_tasks # <<>>
    /\ internal_uid # NULL
    /\ src_changed
    /\ \E dst_ext_id \in get_external_id(id_map, B, internal_uid) :
       \E raw_dst \in fetch_one(remote, B, dst_ext_id) \ {Raise} :
         /\ ~dst_changed(to_cif(B, raw_dst))
         /\ fetch_calls' = Append(fetch_calls \o references_fetched(A, raw),
                                  FetchCall(B, dst_ext_id))
         /\ \E res \in one_sided_update(remote, dst_ext_id, to_cif(B, raw_dst), merged_task) :
              IF res = Raise
              THEN /\ pc' = "idle" /\ outcome' = "crashed"
                   /\ raw_tasks' = <<>>
                   /\ UNCHANGED <<remote, sync_state, calls, lastCommit>>
              ELSE /\ remote' = res
                   /\ calls' = calls \cup {UpdateCall(B, dst_ext_id, internal_uid)}
                   /\ sync_state' = update_sync_state(sync_state, a_task)
                   /\ lastCommit' = [valid |-> TRUE, uid |-> internal_uid, task |-> a_task]
                   /\ raw_tasks' = Tail(raw_tasks)
                   /\ UNCHANGED <<pc, outcome>>
    /\ cls' = cls \cup {Classified(internal_uid, "DIRTY_ONE_SIDE")}
    /\ UNCHANGED <<reconcile, mergetool, procs, lastCall, project_map, id_map, nextUuid, merged_task,
                   done, settled, lastMerge, passStart, ops>>

\* The identities this pass wrote to the destination while a task of their
\* depends list had no destination mapping (a2 of tw lists a1).
dangling_pushed(idm, cs) ==
    {c.uid : c \in {x \in cs :
        /\ x.sys = B /\ x.op \in {"create", "update"} /\ x.ext # NULL
        /\ \E e \in ExtIds(A) :
             /\ get_internal_uuid(idm, A, e) = x.uid
             /\ \E i \in DOMAIN raw_depends(A, [ext_id |-> e]) :
                  LET ref == get_internal_uuid(idm, A, raw_depends(A, [ext_id |-> e])[i])
                  IN  ref = NULL \/ get_external_id(idm, B, ref) = {NULL}}}

\* The update_relationships calls sync makes once the for loop is over:
\* none.  Line 120 follows the loop directly; BasePlugin.update_relationships
\* is abstract, no adapter implements it and nothing calls it.
relationship_pass(idm, cs) == {}

\* Line 120: the loop is over.
SyncEnd ==
    /\ pc = "loop" /\ raw_tasks = <<>>
    /\ id_map' = after_loop(id_map, passStart.fetched)
    /\ calls' = calls \cup relationship_pass(id_map, calls)
    /\ pc' = "idle" /\ outcome' = "complete"
    /\ UNCHANGED <<fetch_calls, reconcile, mergetool, procs, lastCall, project_map, remote, sync_state, nextUuid, raw_tasks, merged_task, cls,
                   done, settled, lastMerge, lastCommit, passStart, ops>>

\* sync_peers: both bulk fetches are made, then mgr.get_all_mapped_uuids is
\* called, which MappingManager does not define: AttributeError before any
\* identity is classified.  No command calls sync_peers.
SyncPeers ==
    /\ pc = "idle" /\ ops < MaxOps
    /\ ops' = ops + 1
    /\ outcome' = "crashed"
    /\ merged_task' = Unbound /\ calls' = {} /\ cls' = {} /\ done' = {}
    /\ settled' = {} /\ lastMerge' = NoMerge /\ lastCommit' = NoCommit
    /\ passStart' = [id_map |-> {}, sync_state |-> {}, fetched |-> {}]
    /\ fetch_calls' = <<>>
    /\ UNCHANGED <<reconcile, mergetool, procs, lastCall, project_map, remote, id_map, sync_state, nextUuid, pc, raw_tasks>>

Next ==
    \/ \E s \in Systems : \E e \in ExtIds(s) : \E c \in Content : UserEdit(s, e, c)
    \/ \E s \in Systems : \E e \in ExtIds(s) : UserAdd(s, e)
    \/ \E s \in Systems : \E e \in ExtIds(s) : UserDelete(s, e)
    \/ \E ea \in ExtIds(A) : \E eb \in ExtIds(B) : ReconcileLink(ea, eb)
    \/ SyncDenied
    \/ SyncStart
    \/ SyncNewTask
    \/ SyncClean
    \/ SyncFetchOneFails
    \/ SyncConflict
    \/ SyncMergeAbort
    \/ SyncOneSided
    \/ SyncEnd
    \/ SyncPeers

Spec == Init /\ [][Next]_vars

\* ------------------------------------------- db.py: MappingManager, called directly
\* The methods of MappingManager applied in any order to the store, with
\* keys from the systems' external ids and identities from those minted.
KnownUuids == {Uuid(n) : n \in 1..(nextUuid - 1)}

CallRecord(op, service, ext, result) ==
    [op |-> op, service |-> service, ext |-> ext, result |-> result,
     before |-> id_map,
     prev |-> IF lastCall = NoCall THEN NoCall
              ELSE [op |-> lastCall.op, service |-> lastCall.service,
                    ext |-> lastCall.ext, result |-> lastCall.result]]

StoreFrame ==
    UNCHANGED <<reconcile, mergetool, procs, fetch_calls, remote, pc, raw_tasks, merged_task, outcome, calls, cls, done,
                settled, lastMerge, lastCommit, passStart, project_map>>

StoreEnsure(s, e) ==
    /\ ops < MaxCalls /\ nextUuid <= MaxUuid
    /\ LET r == ensure_mapping(id_map, s, e, Uuid(nextUuid))
       IN  /\ id_map' = r.idm
           /\ nextUuid' = IF r.uid = Uuid(nextUuid) THEN nextUuid + 1 ELSE nextUuid
           /\ lastCall' = CallRecord("ensure", s, e, r.uid)
    /\ ops' = ops + 1
    /\ UNCHANGED sync_state
    /\ StoreFrame

StoreCreateMapping(s, e, existing_uuid) ==
    /\ ops < MaxCalls
    /\ existing_uuid = NULL => nextUuid <= MaxUuid
    /\ LET new_uuid == IF existing_uuid # NULL THEN existing_uuid ELSE Uuid(nextUuid)
       IN  /\ id_map' \in create_mapping(id_map, s, e, new_uuid)
           /\ lastCall' = CallRecord("create_mapping", s, e, new_uuid)
    /\ nextUuid' = IF existing_uuid = NULL THEN nextUuid + 1 ELSE nextUuid
    /\ ops' = ops + 1
    /\ UNCHANGED sync_state
    /\ StoreFrame

StoreSetStatus(internal_id, status) ==
    /\ ops < MaxCalls
    /\ id_map' = set_status(id_map, internal_id, status)
    /\ lastCall' = CallRecord("set_status", NULL, NULL, internal_id)
    /\ ops' = ops + 1
    /\ UNCHANGED <<sync_state, nextUuid>>
    /\ StoreFrame

StoreDeleteMapping(internal_id) ==
    /\ ops < MaxCalls
    /\ id_map' = delete_mapping(id_map, sync_state, internal_id).idm
    /\ sync_state' = delete_mapping(id_map, sync_state, internal_id).ss
    /\ lastCall' = CallRecord("delete_mapping", NULL, NULL, internal_id)
    /\ ops' = ops + 1
    /\ UNCHANGED nextUuid
    /\ StoreFrame

StoreLink(ea, eb) ==
    /\ ops < MaxCalls /\ nextUuid <= MaxUuid
    /\ perform_link(A, B, TaskCIR(ea, ea, "Draft", "pending"),
                          TaskCIR(NULL, eb, "Draft", "pending"))
    /\ lastCall' = CallRecord("link", A, ea, Uuid(nextUuid))
    /\ ops' = ops + 1
    /\ StoreFrame

NextStore ==
    \/ \E s \in Systems : \E e \in ExtIds(s) : StoreEnsure(s, e)
    \/ \E s \in Systems : \E e \in ExtIds(s) :
          \E u \in KnownUuids \cup {NULL} : StoreCreateMapping(s, e, u)
    \/ \E u \in KnownUuids : \E st \in {"active", "completed"} : StoreSetStatus(u, st)
    \/ \E u \in KnownUuids : StoreDeleteMapping(u)
    \/ \E ea \in ExtIds(A) : \E eb \in ExtIds(B) : StoreLink(ea, eb)

SpecStore == Init /\ [][NextStore]_vars

\* ------------------------ models.py, serialization.py: every kind of field
\* The functions of TaskCIR over a schema with one field of every kind the
\* dataclass has (due and scheduled are as start, actual_effort as effort,
\* followers as depends, body, owner and delegate as project but mergeable).
\* A Python value carries its type, which the isinstance tests of from_dict
\* and of the encoder read.
PyNone == [type |-> "NoneType"]
PyStr(s) == [type |-> "str", v |-> s]
PyList(seq) == [type |-> "list", v |-> seq]
PyDict(pairs) == [type |-> "dict", v |-> pairs]
PyEnum(cls_name, value) == [type |-> cls_name, value |-> value]
datetime(day, second, microsecond) ==
    [type |-> "datetime", day |-> day, second |-> second, microsecond |-> microsecond]
\* timedelta keeps days, seconds (0..86399) and microseconds, normalized.
timedelta(days, seconds, microseconds) ==
    [type |-> "timedelta", days |-> days, seconds |-> seconds,
     microseconds |-> microseconds]

\* metadata={"merge": ...} of each field.
MergeFields == {"description", "status", "priority", "tags", "start", "effort", "depends"}
FrameFields == {"uuid", "tool_uid", "last_modified", "project", "source_url",
                "custom_fields"}
CIRFields == FrameFields \cup MergeFields
merge(f) == f \in MergeFields

\* The annotation of each field, as get_type_hints gives it.
FieldType(f) ==
    CASE f = "last_modified" -> "datetime"
      [] f = "start" -> "Optional[datetime]"
      [] f = "effort" -> "Optional[timedelta]"
      [] f = "status" -> "TaskStatus"
      [] f = "priority" -> "Optional[Priority]"
      [] f \in {"tags", "depends"} -> "List[str]"
      [] f = "custom_fields" -> "Dict[str, Any]"
      [] f \in {"uuid", "tool_uid", "description"} -> "str"
      [] OTHER -> "Optional[str]"

\* The defaults of the dataclass; last_modified defaults to datetime.now().
FieldDefault(f, now) ==
    CASE f = "last_modified" -> now
      [] f \in {"uuid", "tool_uid", "description"} -> PyStr("")
      [] f = "project" -> PyStr("Inbox")
      [] f = "status" -> PyEnum("TaskStatus", "pending")
      [] f \in {"tags", "depends"} -> PyList(<<>>)
      [] f = "custom_fields" -> PyDict({})
      [] OTHER -> PyNone

\* datetime.isoformat(): date, "T", time, and the fraction only when the
\* microsecond is not zero.
isoformat(dt) ==
    [type |-> "str",
     iso |-> <<dt.day, dt.second \div 3600, (dt.second \div 60) % 60, dt.second % 60>>
             \o (IF dt.microsecond # 0 THEN <<dt.microsecond>> ELSE <<>>)]

\* datetime.fromisoformat() of such a text.
fromisoformat(text) ==
    datetime(text.iso[1], text.iso[2] * 3600 + text.iso[3] * 60 + text.iso[4],
             IF Len(text.iso) = 5 THEN text.iso[5] ELSE 0)

\* TaskJSONEncoder.default, and json's own encoding of str, None and list:
\* a timedelta is written as P{days}DT{hours}H{minutes}M{seconds}S from
\* obj.days and obj.seconds, an enum by its value.
TaskJSONEncoder_default(obj) ==
    CASE obj.type = "datetime" -> isoformat(obj)
      [] obj.type = "timedelta" ->
            [type |-> "str",
             duration |-> [P |-> obj.days, H |-> obj.seconds \div 3600,
                           M |-> (obj.seconds \div 60) % 60, S |-> obj.seconds % 60]]
      [] obj.type \in {"TaskStatus", "Priority"} -> PyStr(obj.value)
      [] OTHER -> obj

\* ISO_8601_DURATION_RE: every number is \d+, so a text with a minus sign
\* does not match.
DurationMatches(text) ==
    text.duration.P >= 0 /\ text.duration.H >= 0 /\ text.duration.M >= 0
        /\ text.duration.S >= 0

\* parse_iso_duration: None without a match, else timedelta(**parts).
parse_iso_duration(text) ==
    IF ~DurationMatches(text) THEN PyNone
    ELSE timedelta(text.duration.P + (text.duration.H * 3600 + text.duration.M * 60
                                        + text.duration.S) \div 86400,
                   (text.duration.H * 3600 + text.duration.M * 60 + text.duration.S)
                        % 86400,
                   0)

\* parse_iso_datetime: fromisoformat of the text.
parse_iso_datetime(text) == fromisoformat(text)

\* to_dict: asdict(self), or the fields with merge=True.
TaskCIR_to_dict(task, only_mergeable) ==
    [f \in (IF only_mergeable THEN MergeFields ELSE CIRFields) |-> task[f]]

\* The keys of a dict in the order json.dumps(sort_keys=True) writes them.
KeyOrder ==
    <<"custom_fields", "depends", "description", "effort", "last_modified",
      "priority", "project", "source_url", "start", "status", "tags", "tool_uid",
      "uuid">>

\* to_json(only_mergeable=True): the pairs of the mergeable dict in key
\* order, each value encoded; a list is written element by element in the
\* list's own order.
TaskCIR_to_json(task) ==
    LET data == TaskCIR_to_dict(task, TRUE)
        keys == SelectSeq(KeyOrder, LAMBDA k : k \in DOMAIN data)
    IN  [i \in 1..Len(keys) |-> <<keys[i], TaskJSONEncoder_default(data[keys[i]])>>]

\* A fingerprint that also covers the modification time.
content_hash_with_stamp(task) == <<TaskCIR_to_json(task), task.last_modified>>

\* get_content_hash: md5 of to_json(only_mergeable=True), taken injective.
TaskCIR_get_content_hash(task) == TaskCIR_to_json(task)

\* from_dict: each value converted by the annotation of its field, absent
\* fields left to the dataclass defaults.
TaskCIR_from_dict(data, now) ==
    [f \in CIRFields |->
        IF f \notin DOMAIN data THEN FieldDefault(f, now)
        ELSE LET value == data[f]
             IN  IF value.type = "NoneType" THEN PyNone
                 ELSE CASE FieldType(f) \in {"datetime", "Optional[datetime]"} ->
                              IF value.type = "str" THEN parse_iso_datetime(value)
                              ELSE value
                        [] FieldType(f) = "Optional[timedelta]" ->
                              IF value.type = "str" THEN parse_iso_duration(value)
                              ELSE value
                        [] FieldType(f) = "TaskStatus" ->
                              IF value.type = "str" THEN PyEnum("TaskStatus", value.v)
                              ELSE value
                        [] FieldType(f) = "Optional[Priority]" ->
                              IF value.type = "str" THEN PyEnum("Priority", value.v)
                              ELSE value
                        [] OTHER -> value]

\* from_json: json.loads, then from_dict.
TaskCIR_from_json(text, now) ==
    TaskCIR_from_dict([k \in {text[i][1] : i \in DOMAIN text} |->
                          (CHOOSE p \in {text[i] : i \in DOMAIN text} : p[1] = k)[2]],
                      now)

\* An update_from that does not read the merge flag.
update_from_every_field(task, merged_data) ==
    [f \in CIRFields |-> IF f \in DOMAIN merged_data THEN merged_data[f] ELSE task[f]]

\* update_from: setattr for each field with merge=True whose name is a key
\* of the dict.
TaskCIR_update_from(task, merged_data) ==
    [f \in CIRFields |->
        IF merge(f) /\ f \in DOMAIN merged_data THEN merged_data[f] ELSE task[f]]

\* Inputs.  The durations are those uts_tw's to_cif builds from the effort
\* texts "2h", "1d", "1.5h", "0.0001h" and "-1h".
TagNames == {"home", "work"}
TagLists == UNION {[1..n -> TagNames] : n \in 0..MaxTags}
Durations ==
    {timedelta(0, 7200, 0), timedelta(1, 0, 0), timedelta(0, 5400, 0),
     timedelta(0, 0, 360000), timedelta(-1, 82800, 0)}
Datetimes == {datetime(1, 3661, 0), datetime(1, 3661, 250000)}
MergeableParts ==
    [description : {PyStr("Draft")},
     status : {PyEnum("TaskStatus", "pending"), PyEnum("TaskStatus", "completed")},
     priority : {PyNone, PyEnum("Priority", "H")},
     tags : {PyList(t) : t \in TagLists},
     start : {PyNone} \cup Datetimes,
     effort : {PyNone} \cup Durations,
     depends : {PyList(<<>>), PyList(<<"a2">>)}]
Owned(m) ==
    m @@ [uuid |-> PyStr("u1"), tool_uid |-> PyStr("a1"),
          last_modified |-> datetime(1, 0, 0), project |-> PyStr("uts"),
          source_url |-> PyNone, custom_fields |-> PyDict({})]
Tasks == {Owned(m) : m \in MergeableParts}
SampleTasks ==
    {t \in Tasks : /\ t.tags = PyList(<<>>) /\ t.start = PyNone /\ t.depends = PyList(<<>>)
                    /\ t.effort = PyNone /\ t.priority = PyNone}
\* Merge results: a task of another identity, every field of which differs
\* from the fields of the tasks above, as from_json left it or as raw text.
Donors ==
    {[uuid |-> PyStr("u2"), tool_uid |-> PyStr("b1"),
      last_modified |-> datetime(2, 0, 0), project |-> PyStr("other"),
      source_url |-> PyStr("https://example.org/1"),
      custom_fields |-> PyDict({<<"labels", "x">>}),
      description |-> PyStr("Draft v2"), status |-> st,
      priority |-> PyEnum("Priority", "L"), tags |-> PyList(<<"work", "home", "work">>),
      start |-> datetime(2, 60, 0), effort |-> timedelta(2, 0, 0),
      depends |-> PyList(<<"a1">>)]
     : st \in {PyEnum("TaskStatus", "waiting"), PyStr("deleted")}}

ModelsFrame ==
    UNCHANGED <<reconcile, mergetool, procs, fetch_calls, remote, id_map, sync_state, nextUuid, pc, raw_tasks, merged_task,
                outcome, calls, cls, done, settled, lastMerge, lastCommit, passStart,
                ops, project_map>>

\* get_content_hash of a task and of the same task with another tag list.
ApplyContentHash(task, tags2) ==
    /\ lastCall = NoCall
    /\ LET task2 == [task EXCEPT !.tags = PyList(tags2)]
       IN  lastCall' = [op |-> "get_content_hash", task1 |-> task, task2 |-> task2,
                        hash1 |-> TaskCIR_get_content_hash(task),
                        hash2 |-> TaskCIR_get_content_hash(task2)]
    /\ ModelsFrame

\* from_dict(to_dict()) and from_json(to_json(only_mergeable=True)).
ApplyRoundTrip(task, now) ==
    /\ lastCall = NoCall
    /\ lastCall' = [op |-> "round_trip", task |-> task,
                    by_dict |-> TaskCIR_from_dict(TaskCIR_to_dict(task, FALSE), now),
                    by_json |-> TaskCIR_from_json(TaskCIR_to_json(task), now)]
    /\ ModelsFrame

\* update_from with a dict holding the keys `keys`.
ApplyUpdateFrom(task, donor, keys) ==
    /\ lastCall = NoCall
    /\ LET merged_data == [f \in keys |-> donor[f]]
       IN  lastCall' = [op |-> "update_from", task |-> task, merged_data |-> merged_data,
                        result |-> TaskCIR_update_from(task, merged_data)]
    /\ ModelsFrame

\* cli.py lines 73-118 for one mapped identity, as a function of what the
\* pass is handed: the source task, the destination task, the snapshot row
\* (None, or its hash) and the text the merge tool leaves.  The result is
\* the branch taken and the mergeable content sent to each side.
classify(src_task, cur_dst_task, snapshot, merged_text, now) ==
    LET src_changed_ == IF snapshot = PyNone THEN TRUE
                        ELSE TaskCIR_get_content_hash(src_task) # snapshot["hash"]
        dst_changed_ == IF snapshot = PyNone THEN TRUE
                        ELSE TaskCIR_get_content_hash(cur_dst_task) # snapshot["hash"]
        merged == TaskCIR_to_dict(TaskCIR_from_json(merged_text, now), FALSE)
        tmp_a == TaskCIR_update_from(src_task, merged)
        tmp_b == TaskCIR_update_from(cur_dst_task, merged)
    IN  IF ~src_changed_ THEN [class |-> "CLEAN", pushed |-> {}]
        ELSE IF ~dst_changed_ THEN [class |-> "DIRTY_ONE_SIDE", pushed |-> {}]
        ELSE [class |-> "CONFLICT",
              pushed |->
                 (IF TaskCIR_get_content_hash(src_task) # TaskCIR_get_content_hash(tmp_a)
                  THEN {[sys |-> A, content |-> TaskCIR_to_dict(tmp_a, TRUE)]} ELSE {})
                 \cup
                 (IF TaskCIR_get_content_hash(cur_dst_task) # TaskCIR_get_content_hash(tmp_b)
                  THEN {[sys |-> B, content |-> TaskCIR_to_dict(tmp_b, TRUE)]} ELSE {})]

\* The tasks of the two sides and of the snapshot, and the same task as an
\* adapter hands it over at another time: other values in the fields `stale`
\* of those that carry merge=False.
ClassifyTasks ==
    {[t EXCEPT !.description = PyStr(d)] : t \in SampleTasks, d \in Descriptions}
StampFields == {"last_modified", "uuid", "source_url", "custom_fields"}
Restamped(task, stale) ==
    [f \in CIRFields |->
        IF f \notin stale THEN task[f]
        ELSE CASE f = "last_modified" -> datetime(2, 0, 0)
               [] f = "uuid" -> PyNone
               [] f = "source_url" -> PyStr("https://example.org/1")
               [] OTHER -> PyDict({<<"labels", "x">>})]

\* The loop body applied to an identity twice: to the tasks as they are and
\* to the same tasks restamped; the snapshot and the merge tool's choice
\* (the source's text or the destination's) are the same.
ApplyClassify(src_task, dst_task, base, ours, stale) ==
    /\ lastCall = NoCall
    /\ LET snapshot == IF base = PyNone THEN PyNone
                        ELSE [hash |-> TaskCIR_get_content_hash(base)]
           merged_text == TaskCIR_to_json(IF ours THEN src_task ELSE dst_task)
           src_task2 == Restamped(src_task, stale)
           dst_task2 == Restamped(dst_task, stale)
       IN  lastCall' = [op |-> "classify", src_task |-> src_task, dst_task |-> dst_task,
                        src_task2 |-> src_task2, dst_task2 |-> dst_task2,
                        run1 |-> classify(src_task, dst_task, snapshot, merged_text,
                                          datetime(1, 0, 0)),
                        run2 |-> classify(src_task2, dst_task2, snapshot, merged_text,
                                          datetime(2, 0, 0))]
    /\ ModelsFrame

\* A function is applied once, to inputs of the set S.
Inputs(S) == IF lastCall = NoCall THEN S ELSE {}

NextModels ==
    \/ \E src_task \in Inputs(ClassifyTasks) : \E dst_task \in ClassifyTasks :
          \E base \in ClassifyTasks \cup {PyNone} : \E ours \in BOOLEAN :
             \E stale \in SUBSET StampFields : ApplyClassify(src_task, dst_task, base, ours, stale)
    \/ \E task \in Inputs(Tasks) : \E tags2 \in TagLists : ApplyContentHash(task, tags2)
    \/ \E task \in Inputs(Tasks) : \E now \in Datetimes : ApplyRoundTrip(task, now)
    \/ \E task \in Inputs(SampleTasks) : \E donor \in Donors :
          \E keys \in SUBSET CIRFields : ApplyUpdateFrom(task, donor, keys)

SpecModels == Init /\ [][NextModels]_vars

\* ------------------------------------------------ cli.py: route memory
\* `sync` invoked with several source filters and targets, on a machine
\* without tokens: the target is resolved and remembered (lines 32-42), then
\* authenticate raises (lines 46-47).
SrcFilters == {a_filter, "project:home", "+next"}
RouteTargets == Targets \cup {"owner/other"}

Remembered == IF lastCall = NoCall THEN {} ELSE lastCall.remembered

RouteSync(a_flt, b_filter) ==
    /\ pc = "idle"
    /\ \E r \in target_from_history(project_map, a_flt, b_filter, RouteTargets) :
          /\ project_map' = r.pm
          /\ lastCall' = [op |-> "sync", a_filter |-> a_flt, given |-> b_filter,
                          b_filter |-> r.b_filter, prompted |-> r.prompted,
                          before |-> project_map,
                          remembered |-> IF r.pm # project_map
                                         THEN Remembered \cup {a_flt} ELSE Remembered]
    /\ outcome' = "denied"
    /\ UNCHANGED <<reconcile, mergetool, procs, fetch_calls, remote, id_map, sync_state, nextUuid, pc, raw_tasks, merged_task,
                   calls, cls, done, settled, lastMerge, lastCommit, passStart, ops>>

NextRoute ==
    \E a_flt \in SrcFilters : \E b_filter \in RouteTargets \cup {NULL} :
        RouteSync(a_flt, b_filter)

SpecRoute == Init /\ [][NextRoute]_vars

\* ------------------------------------------ db.py: two processes, one map.db
\* Each method opens its own connection and every statement is atomic; a
\* SELECT holds no lock once it has returned, so the statements of the two
\* processes interleave.  A process runs ensure_mapping, or the driver's
\* get_internal_uuid followed by create_mapping (cli.py 61-70).
ConcFrame ==
    UNCHANGED <<remote, sync_state, pc, raw_tasks, merged_task, outcome, calls, cls,
                done, settled, lastMerge, lastCommit, passStart, ops, lastCall,
                project_map, fetch_calls, mergetool, reconcile>>

KeyRows(idm, s, e) == {r \in idm : r.service_name = s /\ r.external_id = e}

\* The SELECT of ensure_mapping (lines 86-89), or get_internal_uuid.
ConcSelect(p, op, s, e) ==
    /\ procs[p].pc = "start"
    /\ procs' = [procs EXCEPT ![p] =
                    [pc |-> "selected", op |-> op, service |-> s, ext |-> e,
                     found |-> get_internal_uuid(id_map, s, e), uid |-> NULL]]
    /\ UNCHANGED <<id_map, nextUuid>>
    /\ ConcFrame

\* The rest of ensure_mapping: the UPDATE when the SELECT found a row; else
\* a plain INSERT, which raises IntegrityError when the key is there by now.
ConcEnsureWrite(p) ==
    LET me == procs[p]
    IN  /\ me.pc = "selected" /\ me.op = "ensure"
        /\ IF me.found # NULL
           THEN /\ id_map' = {IF r \in KeyRows(id_map, me.service, me.ext)
                              THEN [r EXCEPT !.status = "active"] ELSE r : r \in id_map}
                /\ procs' = [procs EXCEPT ![p].pc = "done", ![p].uid = me.found]
                /\ UNCHANGED nextUuid
           ELSE IF KeyRows(id_map, me.service, me.ext) # {}
           THEN /\ procs' = [procs EXCEPT ![p].pc = "failed"]
                /\ UNCHANGED <<id_map, nextUuid>>
           ELSE /\ nextUuid <= MaxUuid
                /\ id_map' = id_map \cup {IdMapRow(Uuid(nextUuid), me.service, me.ext, "active")}
                /\ procs' = [procs EXCEPT ![p].pc = "done", ![p].uid = Uuid(nextUuid)]
                /\ nextUuid' = nextUuid + 1
        /\ ConcFrame

\* The rest of the driver's sequence: with no identity found, create_mapping
\* mints one and the driver goes on with it; else it goes on with the one found.
ConcCreateMapping(p) ==
    LET me == procs[p]
    IN  /\ me.pc = "selected" /\ me.op = "driver"
        /\ IF me.found # NULL
           THEN /\ procs' = [procs EXCEPT ![p].pc = "done", ![p].uid = me.found]
                /\ UNCHANGED <<id_map, nextUuid>>
           ELSE /\ nextUuid <= MaxUuid
                /\ id_map' \in create_mapping(id_map, me.service, me.ext, Uuid(nextUuid))
                /\ procs' = [procs EXCEPT ![p].pc = "done", ![p].uid = Uuid(nextUuid)]
                /\ nextUuid' = nextUuid + 1
        /\ ConcFrame

NextConc ==
    \/ \E p \in Procs : \E op \in {"ensure", "driver"} :
          \E s \in Systems : \E e \in ExtIds(s) : ConcSelect(p, op, s, e)
    \/ \E p \in Procs : ConcEnsureWrite(p)
    \/ \E p \in Procs : ConcCreateMapping(p)

SpecConc == Init /\ [][NextConc]_vars

\* ------------------------- cli.py: the loop of resolve_conflict_via_git
\* TASK.json as the merge tool can leave it: the serialized mergeable content
\* of a task, or a text that is no such thing.  A text is a sequence of
\* key/value pairs; the key "<<<<<<<" stands for conflict markers left in
\* the file.
TaskTexts == {to_json(TaskCIR("", "", c.description, c.status)) : c \in Content}
BrokenTexts ==
    { << <<"<<<<<<<", "ours">>, <<"description", "Draft">> >>,      \* not JSON
      << <<"description", "Draft">>, <<"status", "bogus">> >>,      \* no such TaskStatus
      << <<"description", "Draft">>, <<"state", "pending">> >> }    \* no such field
MergeTexts == TaskTexts \cup BrokenTexts \cup { << <<"description", "Draft v2">> >> }

\* Whether TaskCIR.from_json(text) returns: json.loads accepts the text,
\* every key is a field of the dataclass (cls(**processed_data)) and the
\* status names a member of TaskStatus.
from_json_returns(text) ==
    \A i \in DOMAIN text :
       /\ text[i][1] \in {"description", "status"}
       /\ text[i][1] = "status" => text[i][2] \in Statuses

\* TaskCIR.from_json of a text it accepts: keys the text lacks take the
\* dataclass defaults ("" and TaskStatus.PENDING).
from_json(text) ==
    LET value(key, default) ==
            IF \E i \in DOMAIN text : text[i][1] = key
            THEN text[CHOOSE i \in DOMAIN text : text[i][1] = key][2]
            ELSE default
    IN  TaskCIR("", "", value("description", ""), value("status", "pending"))

\* A loop body that hands back whatever it can read from the file.
merge_read_lenient(m) ==
    [m EXCEPT !.pc = "returned",
              !.result = IF from_json_returns(m.file) THEN from_json(m.file)
                         ELSE TaskCIR("", "", "", "pending")]

\* Lines 176-180: the try block returns to_dict(from_json(f.read())); any
\* exception is caught, reported, and leads to the prompt.
merge_read(m) ==
    IF from_json_returns(m.file)
    THEN [m EXCEPT !.pc = "returned", !.result = from_json(m.file)]
    ELSE [m EXCEPT !.pc = "confirm", !.fails = m.fails + 1]

MergeFrame ==
    UNCHANGED <<reconcile, remote, id_map, sync_state, nextUuid, pc, raw_tasks, merged_task,
                outcome, calls, cls, done, settled, lastMerge, lastCommit, passStart,
                ops, lastCall, project_map, procs, fetch_calls>>

\* Lines 142-172: the three versions are staged in the index ("{}" for a
\* missing base) and TASK.json is written with p1's mergeable JSON.
MergeStart(base_task, p1_task, p2_task) ==
    /\ mergetool = MergeOff
    /\ mergetool' = [pc |-> "run", file |-> to_json(p1_task), runs |-> 0, fails |-> 0,
                     stage |-> <<IF base_task = None THEN <<>> ELSE to_json(base_task),
                                 to_json(p1_task), to_json(p2_task)>>,
                     result |-> Unbound]
    /\ MergeFrame

\* Line 175: subprocess.run of the merge tool, which leaves TASK.json as it
\* was or with any text.
MergeTool(out) ==
    /\ mergetool.pc = "run" /\ mergetool.runs < MaxRuns
    /\ out \in MergeTexts \cup {mergetool.file}
    /\ mergetool' = [mergetool EXCEPT !.pc = "read", !.file = out, !.runs = mergetool.runs + 1]
    /\ MergeFrame

MergeRead ==
    /\ mergetool.pc = "read"
    /\ mergetool' = merge_read(mergetool)
    /\ MergeFrame

\* Lines 181-182: "Fix in editor?"; yes runs the tool again, no raises
\* typer.Abort.
MergeConfirm(answer) ==
    /\ mergetool.pc = "confirm"
    /\ mergetool' = [mergetool EXCEPT !.pc = IF answer THEN "run" ELSE "aborted"]
    /\ MergeFrame

NextMerge ==
    \/ \E p1_task, p2_task \in {TaskCIR("", "", c.description, c.status) : c \in Content} :
          MergeStart(None, p1_task, p2_task)
    \/ \E out \in MergeTexts : MergeTool(out)
    \/ MergeRead
    \/ \E answer \in BOOLEAN : MergeConfirm(answer)

SpecMerge == Init /\ [][NextMerge]_vars

\* ------------------------------- reconciler.py: one run of the command
\* What the two systems hold when the command is run.
RecContent == [description : Descriptions, status : {"pending"}]
Worlds ==
    {w \in [Systems -> UNION {[ExtIds(s) -> RecContent \cup {NoTask}] : s \in Systems}] :
        \A s \in Systems : DOMAIN w[s] = ExtIds(s)}

\* A first match that does not look at linked_dst_ids.
auto_match_relinks(s_task, dst_tasks, linked_dst_ids) ==
    LET hits == SelectSeq(dst_tasks, LAMBDA d :
                    get_content_hash(d) = get_content_hash(s_task))
    IN  IF hits = <<>> THEN None ELSE Head(hits)

\* Lines 54-56: next() over the destination tasks not linked in this run
\* whose content hash is the source task's; None when there is none.
auto_match(s_task, dst_tasks, linked_dst_ids) ==
    LET hits == SelectSeq(dst_tasks, LAMBDA d :
                    /\ d.ext_id \notin linked_dst_ids
                    /\ get_content_hash(d) = get_content_hash(s_task))
    IN  IF hits = <<>> THEN None ELSE Head(hits)

\* Lines 65-73: the destination tasks not linked in this run whose
\* description contains the source's, or is contained in it.
candidates(s_task, dst_tasks, linked_dst_ids) ==
    SelectSeq(dst_tasks, LAMBDA d :
        /\ d.ext_id \notin linked_dst_ids
        /\ \/ IsSubstring(s_task.description, d.description)
           \/ IsSubstring(d.description, s_task.description))

\* int(choice) of an answer for which choice.isdigit() holds.
RecIndex(choice) == IF choice = "0" THEN 0 ELSE 1

RecFrame ==
    UNCHANGED <<mergetool, pc, raw_tasks, merged_task, outcome, calls, cls, done,
                settled, lastMerge, lastCommit, passStart, ops, lastCall, project_map,
                procs, fetch_calls>>

\* Lines 45-48: both lists are fetched and converted, linked_dst_ids is empty.
\* The command is run on systems holding anything, and run again on the
\* same systems.
RecStart(rem) ==
    /\ reconcile.pc \in {"off", "done", "aborted"}
    /\ reconcile.pc # "off" => rem = remote
    /\ remote' = rem
    /\ reconcile' =
          [pc |-> "loop",
           src_tasks |-> [i \in DOMAIN fetch_raw(rem, A) |-> to_cif(A, fetch_raw(rem, A)[i])],
           dst_tasks |-> [i \in DOMAIN fetch_raw(rem, B) |-> to_cif(B, fetch_raw(rem, B)[i])],
           linked_dst_ids |-> {}, links |-> {}]
    /\ UNCHANGED <<id_map, sync_state, nextUuid>>
    /\ RecFrame

\* The link as the properties see it: the pair, how it came about, and the
\* set linked_dst_ids as it was.
RecLink(kind, s_task, d, choice) ==
    [kind |-> kind, src |-> s_task, dst |-> d, choice |-> choice,
     linked_before |-> reconcile.linked_dst_ids,
     offered |-> candidates(s_task, reconcile.dst_tasks, reconcile.linked_dst_ids)]

\* Lines 58-62 and 85-89: _perform_link, then the destination id joins
\* linked_dst_ids.
RecPerform(kind, s_task, d, choice) ==
    /\ nextUuid <= MaxUuid
    /\ perform_link(A, B, s_task, d)
    /\ reconcile' = [reconcile EXCEPT
                        !.src_tasks = Tail(reconcile.src_tasks),
                        !.linked_dst_ids = reconcile.linked_dst_ids \cup {d.ext_id},
                        !.links = reconcile.links \cup {RecLink(kind, s_task, d, choice)}]
    /\ UNCHANGED remote

RecSkip ==
    /\ reconcile' = [reconcile EXCEPT !.src_tasks = Tail(reconcile.src_tasks)]
    /\ UNCHANGED <<remote, id_map, sync_state, nextUuid>>

\* Lines 50-62: the source task has a hash match, which is linked.
RecAuto ==
    /\ reconcile.pc = "loop" /\ reconcile.src_tasks # <<>>
    /\ LET s_task == Head(reconcile.src_tasks)
           match == auto_match(s_task, reconcile.dst_tasks, reconcile.linked_dst_ids)
       IN  /\ match # None
           /\ RecPerform("auto", s_task, match, NULL)
    /\ RecFrame

\* Lines 64-76: no hash match and no candidate.
RecNoCandidate ==
    /\ reconcile.pc = "loop" /\ reconcile.src_tasks # <<>>
    /\ LET s_task == Head(reconcile.src_tasks)
       IN  /\ auto_match(s_task, reconcile.dst_tasks, reconcile.linked_dst_ids) = None
           /\ candidates(s_task, reconcile.dst_tasks, reconcile.linked_dst_ids) = <<>>
    /\ RecSkip
    /\ RecFrame

\* Lines 78-89: the operator answers the prompt with an index, "s" or "q".
\* "q" raises typer.Abort; an index below len(candidates) links that
\* candidate; anything else goes on to the next source task.
RecManual(choice) ==
    /\ reconcile.pc = "loop" /\ reconcile.src_tasks # <<>>
    /\ LET s_task == Head(reconcile.src_tasks)
           cands == candidates(s_task, reconcile.dst_tasks, reconcile.linked_dst_ids)
       IN  /\ auto_match(s_task, reconcile.dst_tasks, reconcile.linked_dst_ids) = None
           /\ cands # <<>>
           /\ IF choice = "q"
              THEN /\ reconcile' = [reconcile EXCEPT !.pc = "aborted"]
                   /\ UNCHANGED <<remote, id_map, sync_state, nextUuid>>
              ELSE IF choice \in {"0", "1"} /\ RecIndex(choice) < Len(cands)
              THEN RecPerform("manual", s_task, cands[RecIndex(choice) + 1], choice)
              ELSE RecSkip
    /\ RecFrame

\* Line 91: the loop is over.
RecEnd ==
    /\ reconcile.pc = "loop" /\ reconcile.src_tasks = <<>>
    /\ reconcile' = [reconcile EXCEPT !.pc = "done"]
    /\ UNCHANGED <<remote, id_map, sync_state, nextUuid>>
    /\ RecFrame

NextReconcile ==
    \/ \E rem \in Worlds : RecStart(rem)
    \/ RecAuto
    \/ RecNoCandidate
    \/ \E choice \in {"0", "1", "s", "q"} : RecManual(choice)
    \/ RecEnd

SpecReconcile == Init /\ [][NextReconcile]_vars

\* ================================================================ properties
RowsOf(idm, uid) == {r \in idm : r.internal_uuid = uid}
SnapshotsOf(ss, uid) == {r \in ss : r.internal_uuid = uid}
MappedOn(idm, s, uid) == {r.external_id : r \in {x \in RowsOf(idm, uid) : x.service_name = s}}
PassOver == pc = "idle" /\ outcome \in {"complete", "crashed", "aborted"}

\* C1: a write the driver issues on the destination for an identity that has
\* a destination mapping is an update, addressed to an external id mapped to
\* that identity on the destination; never a create.
C1_NoDuplicateCreation ==
    [][\A c \in calls' \ calls :
          (c.sys = B /\ MappedOn(id_map, B, c.uid) # {})
              => c.op = "update" /\ c.ext \in MappedOn(id_map, B, c.uid)]_vars

C1_Witness ==
    \E c \in calls : c.sys = B /\ c.op = "update" /\ c.ext \in MappedOn(id_map, B, c.uid)

\* C2: when a pass is over, every task it found unmapped on A and created on
\* B has a mapping for its A id and one for the new B id, both to the same
\* identity, and a snapshot of that identity with the task's fingerprint.
C2_FirstPassCreation ==
    PassOver =>
        \A c \in calls :
            (c.op = "create" /\ c.sys = B /\ c.ext # NULL
                /\ \E k \in cls : k.uid = c.uid /\ k.class = "NEW")
            => /\ c.ext \in MappedOn(id_map, B, c.uid)
               /\ \E ea \in MappedOn(id_map, A, c.uid) :
                     /\ Present(remote, A, ea)
                     /\ \E r \in SnapshotsOf(sync_state, c.uid) :
                           r.content_hash = get_content_hash(remote[A][ea])

\* C3: an identity the previous pass finished, with nothing changed since, is
\* classified CLEAN by this pass, gets no adapter write, and keeps its mapping
\* rows and its snapshot.
C3_Quiescence ==
    \A k \in cls :
        k.uid \in settled
        => /\ k.class = "CLEAN"
           /\ \A c \in calls : c.uid # k.uid
           /\ RowsOf(id_map, k.uid) = RowsOf(passStart.id_map, k.uid)
           /\ SnapshotsOf(sync_state, k.uid) = SnapshotsOf(passStart.sync_state, k.uid)

\* C4: with a baseline, an identity of which exactly one side differs from
\* the baseline is classified DIRTY_ONE_SIDE, and the resolver runs only for
\* an identity of which both sides differ.
C4_ConflictOnlyOnDoubleChange ==
    \A k \in cls :
        k.base => /\ (k.aDiff # k.bDiff) => k.class = "DIRTY_ONE_SIDE"
                  /\ k.class = "CONFLICT" => (k.aDiff /\ k.bDiff)

\* C5: when a pass is over, an identity with a baseline of which exactly one
\* side had changed has the same fingerprint on both sides and in its snapshot.
C5_OneSidedChangePropagates ==
    PassOver =>
        \A k \in cls :
            (k.base /\ k.aPresent /\ k.bPresent /\ (k.aDiff # k.bDiff))
            => \E ea \in MappedOn(id_map, A, k.uid), eb \in MappedOn(id_map, B, k.uid) :
                 /\ Present(remote, A, ea) /\ Present(remote, B, eb)
                 /\ get_content_hash(remote[A][ea]) = get_content_hash(remote[B][eb])
                 /\ \E r \in SnapshotsOf(sync_state, k.uid) :
                       r.content_hash = get_content_hash(remote[A][ea])

\* The scenario of a merge of disjoint edits: description on A, status on B.
C6_Scenario ==
    /\ lastMerge.valid
    /\ lastMerge.base # None
    /\ lastMerge.base.description = "Draft" /\ lastMerge.base.status = "pending"
    /\ lastMerge.p1.description # "Draft" /\ lastMerge.p1.status = "pending"
    /\ lastMerge.p2.description = "Draft" /\ lastMerge.p2.status = "completed"

C7_ConvergenceAfterConflict ==
    \A k \in cls :
        (k.class = "CONFLICT" /\ k.uid \in done)
        => \E ea \in MappedOn(id_map, A, k.uid), eb \in MappedOn(id_map, B, k.uid) :
             /\ Present(remote, A, ea) /\ Present(remote, B, eb)
             /\ get_content_hash(remote[A][ea]) = get_content_hash(remote[B][eb])
             /\ \E r \in SnapshotsOf(sync_state, k.uid) :
                   r.content_hash = get_content_hash(remote[A][ea])

\* C8: an identity with a mapping and no snapshot is never classified
\* CONFLICT, and the resolver is never run without a stored baseline.
C8_NoBaselineNoConflict ==
    /\ \A k \in cls : ~k.base => k.class # "CONFLICT"
    /\ lastMerge.valid => lastMerge.stored # None

\* C9: when a pass has completed, an identity with a snapshot that it found present
\* on A and, though mapped, absent on B has had a delete or complete call on
\* A, has all its mappings marked completed, and has had no write on B.
C9_TombstonePropagation ==
    (pc = "idle" /\ outcome = "complete") =>
        \A k \in cls :
            (k.base /\ k.aPresent /\ ~k.bPresent /\ MappedOn(id_map, B, k.uid) # {})
            => /\ \E c \in calls : c.uid = k.uid /\ c.sys = A /\ c.op \in {"delete", "complete"}
               /\ \A r \in RowsOf(id_map, k.uid) : r.status = "completed"
               /\ \A c \in calls : c.uid = k.uid => c.sys # B

\* A pass whose bulk fetch returned nothing although mappings are active.
C10_ZeroResult ==
    /\ pc = "loop" \/ PassOver
    /\ passStart.fetched = {}
    /\ \E r \in passStart.id_map : r.service_name = A /\ r.status = "active"

\* C10: in a pass whose bulk fetch returned nothing while the store holds
\* active mappings for the fetched system, no delete or complete call is
\* issued and every mapping row stays as it was at the start of the pass.
C10_ZeroResultGuard ==
    C10_ZeroResult =>
        /\ \A c \in calls : c.op \notin {"delete", "complete"}
        /\ \A r \in passStart.id_map : r \in id_map

C10_Witness == C10_ZeroResult /\ pc = "idle" /\ outcome = "complete"

\* C11: when the create of a new task on B is refused (send_raw returns no
\* id), the mapping rows and the snapshot rows of the identity are what they
\* were when the pass started.
C11_PushFailureCommitsNothing ==
    \A c \in calls :
        (c.op = "create" /\ c.sys = B /\ c.ext = NULL
            /\ \E k \in cls : k.uid = c.uid /\ k.class = "NEW")
        => /\ RowsOf(id_map, c.uid) = RowsOf(passStart.id_map, c.uid)
           /\ SnapshotsOf(sync_state, c.uid) = SnapshotsOf(passStart.sync_state, c.uid)

\* C12: whenever a row is written to sync_state for an identity, the task
\* mapped to that identity on each system is present and has the row's
\* fingerprint.
C12_SnapshotOnlyAfterAgreement ==
    [][\A r \in sync_state' \ sync_state :
          LET uid == IF r.internal_uuid = NULL THEN lastCommit'.uid
                     ELSE r.internal_uuid
          IN  \A s \in Systems :
                 \E e \in MappedOn(id_map', s, uid) :
                    /\ Present(remote', s, e)
                    /\ get_content_hash(remote'[s][e]) = r.content_hash]_vars

\* C13: the step in which the operator aborts the merge of identity U changes
\* neither system nor any row of id_map or sync_state, and the pass has
\* issued no adapter write for U.
C13_MergeAbortSideEffectFree ==
    [][(pc = "loop" /\ outcome' = "aborted")
          => /\ remote' = remote
             /\ id_map' = id_map
             /\ sync_state' = sync_state
             /\ \A c \in calls' : c.uid # internal_uid]_vars

C13_Witness ==
    /\ pc = "idle" /\ outcome = "aborted"
    /\ \E k \in cls : k.class = "CONFLICT" /\ k.base

\* C14: after a pass in which the fetch of a destination item failed or the
\* operator aborted a merge, every task the bulk fetch returned has still
\* been taken through the loop.
C14_FailureIsolation ==
    (/\ pc = "idle"
     /\ \/ outcome = "aborted"
        \/ \E k \in cls : k.class = "FETCH_FAILED") =>
        \A e \in passStart.fetched :
            \E k \in cls : e \in MappedOn(id_map, A, k.uid)

\* C15: the step of a sync command that ends because authentication or the
\* permission check failed changes neither system and no table of the store:
\* id_map, sync_state and project_map are as the command found them.
C15_SystemFailurePrecedesMutation ==
    [][outcome' = "denied"
          => /\ remote' = remote
             /\ id_map' = id_map
             /\ sync_state' = sync_state
             /\ project_map' = project_map]_vars

\* C16: an ensure that directly follows an ensure of the same key returns the
\* identity the first returned and leaves id_map as the first left it.
C16_EnsureIdempotent ==
    (/\ lastCall.op = "ensure" /\ lastCall.prev.op = "ensure"
     /\ lastCall.prev.service = lastCall.service /\ lastCall.prev.ext = lastCall.ext)
    => /\ lastCall.result = lastCall.prev.result
       /\ id_map = lastCall.before

C16_Witness ==
    /\ lastCall.op = "ensure" /\ lastCall.prev.op = "ensure"
    /\ lastCall.prev.service = lastCall.service /\ lastCall.prev.ext = lastCall.ext
    /\ \E r \in id_map : r.service_name = lastCall.service /\ r.external_id = lastCall.ext

\* Rows of the key of the last call in the table before the call.
KeyRowsBefore ==
    {r \in lastCall.before :
        r.service_name = lastCall.service /\ r.external_id = lastCall.ext}

\* C17: an ensure of a key whose mapping was completed returns that mapping's
\* identity, mints none, and leaves the mapping active.
C17_EnsureReactivates ==
    (lastCall.op = "ensure" /\ \E r \in KeyRowsBefore : r.status = "completed")
    => /\ \A r \in KeyRowsBefore : lastCall.result = r.internal_uuid
       /\ \A r \in id_map :
             (r.service_name = lastCall.service /\ r.external_id = lastCall.ext)
             => r.status = "active" /\ r.internal_uuid = lastCall.result
       /\ \E r \in id_map :
             r.service_name = lastCall.service /\ r.external_id = lastCall.ext

C17_Witness ==
    /\ lastCall.op = "ensure"
    /\ \E r \in KeyRowsBefore : r.status = "completed"
    /\ lastCall.prev.op = "set_status"

\* C18: no two rows of id_map with the same (service_name, external_id) name
\* different identities.
C18_MappingKeyUnique ==
    \A r1, r2 \in id_map :
        (r1.service_name = r2.service_name /\ r1.external_id = r2.external_id)
        => r1.internal_uuid = r2.internal_uuid

C18_Witness ==
    /\ lastCall.op = "create_mapping"
    /\ \E r \in KeyRowsBefore : r.internal_uuid # lastCall.result

\* C19: no identity has two rows of id_map with the same service_name and
\* different external ids.
C19_OneExternalIdPerSystem ==
    \A r1, r2 \in id_map :
        (r1.internal_uuid = r2.internal_uuid /\ r1.service_name = r2.service_name)
        => r1.external_id = r2.external_id

\* C20: a link of two tasks that are already mapped to one identity, whose
\* snapshot has the source task's fingerprint, leaves id_map and sync_state
\* as they were.
C20_LinkIdempotent ==
    [][\A ea \in ExtIds(A) : \A eb \in ExtIds(B) :
          (/\ ReconcileLink(ea, eb)
           /\ get_internal_uuid(id_map, A, ea) # NULL
           /\ get_internal_uuid(id_map, A, ea) = get_internal_uuid(id_map, B, eb)
           /\ \E r \in SnapshotsOf(sync_state, get_internal_uuid(id_map, A, ea)) :
                 r.content_hash = get_content_hash(remote[A][ea]))
          => /\ id_map' = id_map
             /\ sync_state' = sync_state]_vars

\* C21: after a link of (A, ea) with (B, eb), from any table, both keys
\* resolve to one identity, the one the link minted; a key bound to another
\* identity before is bound to this one.
C21_LinkBridges ==
    [][\A ea \in ExtIds(A) : \A eb \in ExtIds(B) :
          StoreLink(ea, eb)
          => /\ get_internal_uuid(id_map', A, ea) # NULL
             /\ get_internal_uuid(id_map', A, ea) = get_internal_uuid(id_map', B, eb)
             /\ get_internal_uuid(id_map', A, ea) = lastCall'.result
             /\ \A r \in id_map' :
                   (r.service_name = A /\ r.external_id = ea)
                   \/ (r.service_name = B /\ r.external_id = eb)
                   => r.internal_uuid = lastCall'.result]_vars

C21_Witness ==
    /\ lastCall.op = "link"
    /\ \E r \in KeyRowsBefore : r.internal_uuid # lastCall.result
    /\ \E r \in lastCall.before :
          /\ r.service_name = B
          /\ r.internal_uuid # lastCall.result
          /\ \E x \in KeyRowsBefore : x.internal_uuid # r.internal_uuid
          /\ get_internal_uuid(id_map, B, r.external_id) = lastCall.result

\* C22: after update_sync_state(task) sync_state holds exactly one row for
\* task.uuid, made of the task's fingerprint and mergeable serialization;
\* every row's fingerprint is the one recomputed from the row's stored
\* state, and the rows of other identities are as they were.
C22_CommitOverwritesWholeRow ==
    [][(lastCommit'.valid /\ lastCommit' # lastCommit)
       => LET task == lastCommit'.task
          IN  /\ SnapshotsOf(sync_state', task.uuid) = {SyncStateRow(task)}
              /\ \A r \in sync_state' :
                    r.content_hash = get_content_hash(from_dict(json_loads(r.raw_json)))
              /\ \A r \in sync_state \cup sync_state' :
                    r.internal_uuid # task.uuid => r \in sync_state \cap sync_state']_vars

IsPermutation(s, t) ==
    /\ Len(s) = Len(t)
    /\ \A x \in TagNames :
          Cardinality({i \in DOMAIN s : s[i] = x}) = Cardinality({i \in DOMAIN t : t[i] = x})

C24_SerializationRoundTrip ==
    lastCall.op = "round_trip"
    => /\ \A f \in MergeFields : lastCall.by_dict[f] = lastCall.task[f]
       /\ \A f \in MergeFields : lastCall.by_json[f] = lastCall.task[f]
       /\ TaskCIR_get_content_hash(lastCall.by_json)
             = TaskCIR_get_content_hash(lastCall.task)

\* C25: update_from leaves uuid, tool_uid, last_modified, project,
\* source_url and custom_fields as they were, whatever the dict holds, and
\* sets each mergeable field that is a key of the dict to the dict's value.
C25_UpdateFromTouchesMergeableOnly ==
    lastCall.op = "update_from"
    => /\ \A f \in FrameFields : lastCall.result[f] = lastCall.task[f]
       /\ \A f \in MergeFields \cap DOMAIN lastCall.merged_data :
             lastCall.result[f] = lastCall.merged_data[f]
       /\ \A f \in MergeFields \ DOMAIN lastCall.merged_data :
             lastCall.result[f] = lastCall.task[f]

C25_Witness ==
    /\ lastCall.op = "update_from"
    /\ DOMAIN lastCall.merged_data = CIRFields
    /\ \A f \in CIRFields : lastCall.merged_data[f] # lastCall.task[f]
    /\ lastCall.result # lastCall.task

\* C26: a target stored for a key is the one recalled for it afterwards, the
\* latest one stored; a key never stored recalls nothing.  A sync without
\* --b_filter uses the stored target, without a prompt and without a write;
\* a sync with --b_filter uses it and stores it in place of the old target.
C26_RouteMemory ==
    /\ \A f \in SrcFilters : \A t \in RouteTargets :
          /\ get_stored_target(store_project_link(project_map, A, f, B, t), A, f, B) = t
          /\ \A g \in SrcFilters \ {f} :
                get_stored_target(store_project_link(project_map, A, f, B, t), A, g, B)
                   = get_stored_target(project_map, A, g, B)
    /\ \A f \in SrcFilters \ Remembered : get_stored_target(project_map, A, f, B) = NULL
    /\ \A f \in SrcFilters : get_stored_target(project_map, B, f, A) = NULL
    /\ lastCall.op = "sync"
       => LET stored == get_stored_target(lastCall.before, A, lastCall.a_filter, B)
          IN  /\ (lastCall.given = NULL /\ stored # NULL)
                 => /\ lastCall.b_filter = stored
                    /\ ~lastCall.prompted
                    /\ project_map = lastCall.before
              /\ lastCall.given # NULL
                 => /\ lastCall.b_filter = lastCall.given
                    /\ ~lastCall.prompted
                    /\ get_stored_target(project_map, A, lastCall.a_filter, B)
                          = lastCall.given
              /\ lastCall.prompted => (lastCall.given = NULL /\ stored = NULL)

C26_Witness ==
    /\ lastCall.op = "sync"
    /\ lastCall.given = NULL
    /\ ~lastCall.prompted
    /\ lastCall.b_filter = "owner/other"
    /\ Cardinality(lastCall.before) = 3

\* C27: a pass that ran to its end has classified every identity that had a
\* mapping on A or on B when the pass began.
C27_IterationDomain ==
    (pc = "idle" /\ outcome = "complete")
    => \A r \in passStart.id_map : \E k \in cls : k.uid = r.internal_uuid

Association(r) ==
    [service_name |-> r.service_name, external_id |-> r.external_id,
     internal_uuid |-> r.internal_uuid]

C29_AtomicStoreWrites ==
    \A p, q \in Procs :
        (/\ p # q
         /\ procs[p].pc \in {"done", "failed"} /\ procs[q].pc \in {"done", "failed"}
         /\ procs[p].service = procs[q].service /\ procs[p].ext = procs[q].ext
         /\ procs[p].found = NULL /\ procs[q].found = NULL)
        => /\ Cardinality(KeyRows(id_map, procs[p].service, procs[p].ext)) = 1
           /\ procs[p].pc = "done"
              => procs[p].uid = get_internal_uuid(id_map, procs[p].service, procs[p].ext)

C31_DeferredRelationshipPass ==
    (pc = "idle" /\ outcome = "complete") =>
        \A u \in dangling_pushed(id_map, calls) :
            \E c \in calls : c.op = "update_relationships" /\ c.uid = u

\* C32: resolve_conflict_via_git returns only what TaskCIR.from_json made of
\* TASK.json; every run of the merge tool whose output did not parse was
\* followed by another run (the operator confirmed) or by typer.Abort (the
\* operator declined), never by a returned value.
C32_MergeLoopValidity ==
    /\ mergetool.pc = "returned" =>
          /\ from_json_returns(mergetool.file)
          /\ mergetool.result = from_json(mergetool.file)
          /\ mergetool.runs = mergetool.fails + 1
    /\ mergetool.pc \in {"confirm", "aborted"} =>
          /\ ~from_json_returns(mergetool.file)
          /\ mergetool.result = Unbound
          /\ mergetool.runs = mergetool.fails
    /\ mergetool.pc = "run" => mergetool.result = Unbound /\ mergetool.runs = mergetool.fails

C32_Witness ==
    /\ mergetool.pc = "returned"
    /\ mergetool.fails >= 1
    /\ mergetool.result.description = "Draft v2"

\* C33: in the conflict branch an update is sent to side A only if the
\* merged mergeable content differs from the content A handed over, and to
\* side B only if it differs from B's; a side that already holds the merge
\* result gets no write and keeps what it holds.
C33_ConflictPushMinimal ==
    [][SyncConflict =>
        LET m == lastMerge'
            wrote(s) == \E c \in calls' \ calls : c.sys = s
            same(t) == to_dict_mergeable(t) = to_dict_mergeable(m.result)
        IN  /\ wrote(A) => ~same(m.p1)
            /\ wrote(B) => ~same(m.p2)
            /\ same(m.p1) => ~wrote(A) /\ remote'[A] = remote[A]
            /\ same(m.p2) => ~wrote(B) /\ remote'[B] = remote[B]]_vars

C33_Witness ==
    /\ lastMerge.valid
    /\ lastMerge.stored # None
    /\ lastMerge.p2.ext_id \in ExtIds(B)
    /\ to_dict_mergeable(lastMerge.p2) = to_dict_mergeable(lastMerge.result)
    /\ to_dict_mergeable(lastMerge.p1) # to_dict_mergeable(lastMerge.result)
    /\ \E c \in calls : c.sys = A /\ c.uid = lastMerge.uid
    /\ \A c \in calls : c.uid = lastMerge.uid => c.sys = A

\* C34: the branch taken for an identity and the mergeable content the pass
\* sends to each side are the same for two runs whose tasks differ only in
\* fields that are not mergeable (last_modified, the uuid the adapter put on
\* the task, source_url, custom_fields).
C34_NoLastWriteWins ==
    lastCall.op = "classify" =>
        /\ lastCall.run1.class = lastCall.run2.class
        /\ lastCall.run1.pushed = lastCall.run2.pushed

C34_Witness ==
    /\ lastCall.op = "classify"
    /\ lastCall.run1.class = "CONFLICT"
    /\ lastCall.run1.pushed # {}
    /\ lastCall.src_task.last_modified # lastCall.src_task2.last_modified
    /\ lastCall.dst_task.uuid # lastCall.dst_task2.uuid

\* The versions of the identity the loop is at: the source task, what
\* fetch_one gives for its destination id, and the stored snapshot.
OwnVersions ==
    {to_dict_mergeable(a_task)}
    \cup (IF internal_uid = NULL THEN {}
          ELSE {to_dict_mergeable(to_cif(B, r)) :
                   r \in UNION {fetch_one(remote, B, e) \ {Raise} :
                                   e \in get_external_id(id_map, B, internal_uid)}})
    \cup (IF internal_uid = NULL \/ last_sync = None THEN {} ELSE {last_sync.data})

\* Content every field of which is the field of one of those versions.
OwnContent ==
    {c \in Content : /\ \E v \in OwnVersions : c.description = v.description
                     /\ \E v \in OwnVersions : c.status = v.status}

C36_NoOrphanSnapshots ==
    \A r \in sync_state : \E m \in id_map : m.internal_uuid = r.internal_uuid

\* C37: within one run of reconcile no two links share a destination task or
\* a source task; an automatic link joins a source task and a destination
\* task of equal fingerprint that was not linked in the run; a manual link
\* joins a source task and a candidate, not linked in the run, that the
\* operator chose; the two ids of a link share an identity of their own.
C37_OneToOneMatching ==
    reconcile.pc # "off" =>
        /\ \A l1, l2 \in reconcile.links :
              (l1.dst.ext_id = l2.dst.ext_id \/ l1.src.ext_id = l2.src.ext_id) => l1 = l2
        /\ \A l \in reconcile.links :
              /\ l.dst.ext_id \notin l.linked_before
              /\ l.dst.ext_id \in reconcile.linked_dst_ids
              /\ l.kind = "auto" => get_content_hash(l.src) = get_content_hash(l.dst)
              /\ l.kind = "manual" =>
                    /\ l.choice \in {"0", "1"}
                    /\ RecIndex(l.choice) + 1 \in DOMAIN l.offered
                    /\ l.offered[RecIndex(l.choice) + 1] = l.dst
              /\ get_internal_uuid(id_map, A, l.src.ext_id) # NULL
              /\ get_internal_uuid(id_map, A, l.src.ext_id)
                    = get_internal_uuid(id_map, B, l.dst.ext_id)
              /\ \A l2 \in reconcile.links \ {l} :
                    get_internal_uuid(id_map, A, l2.src.ext_id)
                       # get_internal_uuid(id_map, A, l.src.ext_id)

C37_Witness ==
    /\ reconcile.pc = "done"
    /\ Cardinality(reconcile.links) = 2
    /\ \E l \in reconcile.links : l.kind = "auto"
    /\ \E l \in reconcile.links : l.kind = "manual" /\ l.linked_before # {}
    /\ \A d1, d2 \in Range(reconcile.dst_tasks) :
          get_content_hash(d1) = get_content_hash(d2)

====
